---- MODULE Spec2Model ----
(***************************************************************************)
(* A model of pigz_python.PigzFile (src/pigz_python/pigz_python.py): the   *)
(* main thread that constructs the object and calls                        *)
(* process_compression_target, the read thread (_read_file), the pool's    *)
(* worker threads (_process_chunk) and the write thread (_write_file).     *)
(*                                                                         *)
(* Byte strings are run-length sequences << <<byte, count>>, ... >> kept   *)
(* in normal form (no empty run, no two adjacent runs of the same byte),   *)
(* so that a block of blocksize * 1000 bytes is a short value.             *)
(*                                                                         *)
(* One action is one step of one thread between two accesses to shared     *)
(* state.  Statements that touch only state no other thread reads or       *)
(* writes at that time are part of the step they follow.                   *)
(* The output file accepts every write; the faults modelled are a failing  *)
(* read of the input and a failing compression (NextFault).                *)
(***************************************************************************)
EXTENDS Integers, Sequences, FiniteSets, TLC

\* ------------------------------------------------------------------ bounds
\* The longest input, in runs, and the largest pool.
MaxRuns == 3
MaxWorkers == 2

\* ------------------------------------------------------- program constants
\* self.blocksize = blocksize * 1000
KB == 1000
\* FLG bit: FNAME = 0x8
FNAME == 8
\* _last_chunk = -1 until the read thread sets it
LastChunkUnknown == -1

\* ------------------------------------------------------------ byte strings
\* The one element of a one-element set: The({e(x) : x \in {d}}) is
\* LET x == d IN e(x), with d evaluated once.
The(S) == CHOOSE y \in S : TRUE

\* A run before a byte string in normal form.
NormCons(run, r) ==
    IF r # <<>> /\ r[1][1] = run[1]
    THEN << <<run[1], run[2] + r[1][2]>> >> \o Tail(r)
    ELSE <<run>> \o r

RECURSIVE Norm(_)
Norm(s) ==
    IF s = <<>> THEN <<>>
    ELSE IF s[1][2] = 0 THEN Norm(Tail(s))
    ELSE The({NormCons(s[1], r) : r \in {Norm(Tail(s))}})

\* b"..." + b"..."
BCat(a, b) == Norm(a \o b)

\* len(b"...")
RECURSIVE BLen(_)
BLen(s) == IF s = <<>> THEN 0 ELSE s[1][2] + BLen(Tail(s))

\* The first n bytes of s, and s without them.
RECURSIVE BTake(_, _)
BTake(s, n) ==
    IF s = <<>> \/ n <= 0 THEN <<>>
    ELSE IF s[1][2] <= n THEN <<s[1]>> \o BTake(Tail(s), n - s[1][2])
    ELSE << <<s[1][1], n>> >>

RECURSIVE BDrop(_, _)
BDrop(s, n) ==
    IF s = <<>> \/ n <= 0 THEN s
    ELSE IF s[1][2] <= n THEN BDrop(Tail(s), n - s[1][2])
    ELSE << <<s[1][1], s[1][2] - n>> >> \o Tail(s)

\* One byte string per byte value.
Byte(b) == << <<b, 1>> >>

\* input_file.read(size) at offset pos: a negative size reads to the end of
\* the file, size 0 reads nothing.
FileReadAll(content, pos, size) == BDrop(content, pos)
FileRead(content, pos, size) ==
    LET rest == BDrop(content, pos) IN
    IF size < 0 THEN rest ELSE BTake(rest, size)

\* int.to_bytes(length, byteorder): the value's length bytes, least
\* significant first for "little", most significant first for "big";
\* <<>> stands for OverflowError (negative, or too big for length bytes).
RECURSIVE LittleBytes(_, _)
LittleBytes(n, length) ==
    IF length = 0 THEN <<>>
    ELSE <<n % 256>> \o LittleBytes(n \div 256, length - 1)

RECURSIVE Reverse(_)
Reverse(s) == IF s = <<>> THEN <<>> ELSE Reverse(Tail(s)) \o <<Head(s)>>

RECURSIVE FitsBytes(_, _)
FitsBytes(n, length) ==
    IF n < 0 THEN FALSE
    ELSE IF length = 0 THEN n = 0
    ELSE FitsBytes(n \div 256, length - 1)

\* The byte string of a sequence of byte values.
BytesOf(s) == Norm([i \in 1..Len(s) |-> <<s[i], 1>>])

to_bytes(n, length, byteorder) ==
    IF byteorder = "little" THEN BytesOf(LittleBytes(n, length))
    ELSE BytesOf(Reverse(LittleBytes(n, length)))

\* x & 0xFFFFFFFF, for x >= 0 (the two 16-bit halves of x, put together).
Mask32(x) == (x % 65536) + 65536 * ((x \div 65536) % 65536)

\* zlib.crc32(data, value).  zlib is outside the repository: its CRC-32 is
\* modelled by a streaming checksum with the same interface, that is
\* crc32(b"", v) = v and crc32(a + b, v) = crc32(b, crc32(a, v)), which
\* depends on the order of the bytes: v -> (31 * v + byte + 1) mod 2^15 for
\* each byte.  A run of n equal bytes is applied in closed form.
RECURSIVE PowMod(_)
PowMod(n) ==
    IF n = 0 THEN 1
    ELSE IF n % 2 = 0 THEN The({(h * h) % (2^15) : h \in {PowMod(n \div 2)}})
    ELSE (31 * PowMod(n - 1)) % (2^15)

\* 1 + 31 + ... + 31^(n-1) mod 2^15
RECURSIVE GeoMod(_)
GeoMod(n) ==
    IF n = 0 THEN 0
    ELSE IF n % 2 = 0
         THEN (GeoMod(n \div 2) * (1 + PowMod(n \div 2))) % (2^15)
    ELSE (1 + 31 * GeoMod(n - 1)) % (2^15)

RECURSIVE crc32(_, _)
crc32(data, value) ==
    IF data = <<>> THEN value
    ELSE crc32(Tail(data),
               ((PowMod(data[1][2]) * value)
                  + ((data[1][1] + 1) * GeoMod(data[1][2]))) % (2^15))

\* zlib.compressobj(level=...) accepts the levels -1..9 and raises for any
\* other.
LevelAccepted(level) == level \in -1..9

\* _compress_chunk: a fresh raw-DEFLATE compressor, the chunk, then one
\* flush.  The compressed bytes are kept as what decides them: the raw
\* bytes, the level and the flush mode.
FlushOfFinish(is_last_chunk) == "FINISH"
FlushOf(is_last_chunk) == IF is_last_chunk THEN "FINISH" ELSE "SYNC"

_compress_chunk(chunk, is_last_chunk, level) ==
    [kind |-> "deflate", data |-> chunk, flush |-> FlushOf(is_last_chunk),
     level |-> level]

\* What one output_file.write(bytes) call of the header or trailer appends.
Written(bytes) == [kind |-> "bytes", data |-> bytes, flush |-> "none", level |-> 0]

\* _determine_extra_flags
_determine_extra_flags(compression_level) ==
    IF compression_level >= 9 THEN 2
    ELSE IF compression_level = 1 THEN 4 ELSE 0

\* _determine_operating_system, by the prefix of sys.platform
_determine_operating_system(platform) ==
    IF platform \in {"freebsd", "linux", "aix", "darwin"} THEN 3
    ELSE IF platform = "win32" THEN 0
    ELSE 255

\* _determine_fname.  A file name is its sequence of code points; Latin-1
\* encodes the code points up to 255 and no other (UnicodeEncodeError).
DotGz == <<46, 103, 122>>

EndsWithGz(name) ==
    /\ Len(name) >= 3
    /\ SubSeq(name, Len(name) - 2, Len(name)) = DotGz

_determine_fname(name) ==
    IF \E i \in 1..Len(name) : name[i] > 255 THEN <<>>
    ELSE LET stem == IF EndsWithGz(name)
                     THEN SubSeq(name, 1, Len(name) - 3) ELSE name
         IN  BCat(BytesOf(stem), Byte(0))

\* ------------------------------------------------------------------- state
VARIABLES
    env,            \* the call's arguments and its surroundings: never changes
    main_pc,        \* the caller: compress_file / process_compression_target
    error,          \* the exception the caller's call raised, or "none"
    compression_level, blocksize, workers, mtime,   \* the object's fields
    output_file,    \* "none", "open", "closed"
    sink,           \* what has been written to the output file, one entry
                    \* per write call
    flushed,        \* whether output_file.flush() has been called
    last_chunk,     \* _last_chunk
    lock,           \* the holder of _last_chunk_lock, or Unlocked
    checksum, input_size,
    chunk_queue,    \* the PriorityQueue: a set of <<chunk_num, chunk, compressed>>
    pool,           \* "none", "running", "terminated", "joined"
    taskq,          \* the pool's pending apply_async tasks, in order
    r_pc, file_pos, chunk_num,              \* the read thread
    w_pc, w_task, w_last,                   \* the pool's worker threads
    wr_pc, next_chunk_num, wr_item,         \* the write thread
    flushlog,       \* history: <<chunk_num, flush>> of every compression done
    wrote,          \* history: the chunk_num of every compressed chunk
                    \* written to the output file, in the order written
    task_errors     \* the chunk_num of every task that ended with an
                    \* exception (kept by the pool in the task's result)

vars == <<env, main_pc, error, compression_level, blocksize, workers, mtime,
          output_file, sink, flushed, last_chunk, lock, checksum, input_size,
          chunk_queue, pool, taskq, r_pc, file_pos, chunk_num,
          w_pc, w_task, w_last, wr_pc, next_chunk_num, wr_item,
          flushlog, wrote, task_errors>>

objVars == <<compression_level, blocksize, workers, mtime>>
readerVars == <<r_pc, file_pos, chunk_num>>
workerVars == <<w_pc, w_task, w_last>>
writerVars == <<wr_pc, next_chunk_num, wr_item>>
history == <<flushlog, wrote, task_errors>>

Workers == 1..MaxWorkers
Unlocked == <<"none", 0>>
NoTask == <<0, <<>>>>
NoItem == <<0, <<>>, Written(<<>>)>>

\* ------------------------------------------------------------------ inputs
\* The runs an input file is made of: a full block of one byte value and a
\* single byte of another.
InputRuns == {<<97, KB>>, <<98, 1>>}

RECURSIVE SeqsUpTo(_, _)
SeqsUpTo(S, n) ==
    IF n = 0 THEN {<<>>}
    ELSE LET shorter == SeqsUpTo(S, n - 1) IN
         shorter \cup {<<x>> \o s : x \in S, s \in {t \in shorter : Len(t) = n - 1}}

\* Every input file of at most MaxRuns runs.
Inputs == {Norm(s) : s \in SeqsUpTo(InputRuns, MaxRuns)}

\* The file name "a"; "a.gz"; a name Latin-1 cannot encode.
PlainName == <<97>>
GzName == <<97>> \o DotGz
EuroName == <<8364>>

InitWith(targets, names, inputs, levels, blocksizes, workerCounts, orders, mtimes) ==
    /\ env \in [target : targets, name : names, input : inputs,
                compresslevel : levels, blocksize : blocksizes,
                workers : workerCounts, byteorder : orders,
                st_mtime : mtimes, platform : {"linux"}]
    /\ main_pc = "call"
    /\ error = "none"
    /\ compression_level = 0 /\ blocksize = 0 /\ workers = 0 /\ mtime = 0
    /\ output_file = "none"
    /\ sink = <<>>
    /\ flushed = FALSE
    /\ last_chunk = LastChunkUnknown
    /\ lock = Unlocked
    /\ checksum = 0 /\ input_size = 0
    /\ chunk_queue = {}
    /\ pool = "none"
    /\ taskq = <<>>
    /\ r_pc = "unstarted" /\ file_pos = 0 /\ chunk_num = 0
    /\ w_pc = [w \in Workers |-> "idle"]
    /\ w_task = [w \in Workers |-> NoTask]
    /\ w_last = [w \in Workers |-> FALSE]
    /\ wr_pc = "unstarted" /\ next_chunk_num = 0 /\ wr_item = NoItem
    /\ flushlog = {}
    /\ wrote = <<>>
    /\ task_errors = {}

\* A configuration the documented options allow: level 1..9, a positive
\* block size, at least one worker.
ValidConfig ==
    /\ env.compresslevel \in 1..9
    /\ env.blocksize > 0
    /\ env.workers > 0

\* ------------------------------------------------------------- main thread
\* PigzFile.__init__ (called by compress_file).
Construct ==
    /\ main_pc = "call"
    /\ compression_level' = env.compresslevel
    /\ blocksize' = env.blocksize * KB
    /\ workers' = env.workers
    /\ mtime' = env.st_mtime
    /\ IF env.target = "dir"
       THEN main_pc' = "raised" /\ error' = "NotImplementedError" /\ pool' = pool
       ELSE IF env.target = "missing"
       THEN main_pc' = "raised" /\ error' = "FileNotFoundError" /\ pool' = pool
       ELSE IF env.workers < 1
       THEN main_pc' = "raised" /\ error' = "ValueError" /\ pool' = pool
       ELSE main_pc' = "constructed" /\ error' = error /\ pool' = "running"
    /\ UNCHANGED <<env, output_file, sink, flushed, last_chunk, lock, checksum,
                   input_size, chunk_queue, taskq, readerVars, workerVars,
                   writerVars, history>>

\* _write_output_header: the ten fixed bytes, one write call per field, then
\* FNAME.
HeaderWrites ==
    LET fname == _determine_fname(env.name)
        flags == IF fname # <<>> THEN FNAME ELSE 0
    IN  << Written(to_bytes(31, 1, env.byteorder)),
           Written(to_bytes(139, 1, env.byteorder)),
           Written(to_bytes(8, 1, env.byteorder)),
           Written(to_bytes(flags, 1, env.byteorder)),
           Written(to_bytes(mtime, 4, env.byteorder)),
           Written(to_bytes(_determine_extra_flags(compression_level), 1, env.byteorder)),
           Written(to_bytes(_determine_operating_system(env.platform), 1, env.byteorder)),
           Written(fname) >>

\* _setup_output_file: open the output file and write the header.  mtime's
\* to_bytes raises OverflowError when mtime does not fit four bytes: the
\* four writes before it have happened.
SetupOutput ==
    /\ main_pc = "constructed"
    /\ output_file' = "open"
    /\ IF FitsBytes(mtime, 4)
       THEN /\ sink' = HeaderWrites
            /\ main_pc' = "setup"
            /\ error' = error
       ELSE /\ sink' = SubSeq(HeaderWrites, 1, 4)
            /\ main_pc' = "raised"
            /\ error' = "OverflowError"
    /\ UNCHANGED <<env, objVars, flushed, last_chunk, lock, checksum, input_size,
                   chunk_queue, pool, taskq, readerVars, workerVars, writerVars,
                   history>>

\* self.write_thread.start()
StartWriter ==
    /\ main_pc = "setup"
    /\ main_pc' = "writer_started"
    /\ wr_pc' = "loop"
    /\ next_chunk_num' = 1
    /\ UNCHANGED <<env, error, objVars, output_file, sink, flushed, last_chunk,
                   lock, checksum, input_size, chunk_queue, pool, taskq,
                   readerVars, workerVars, wr_item, history>>

\* self.read_thread.start()
StartReader ==
    /\ main_pc = "writer_started"
    /\ main_pc' = "joining"
    /\ r_pc' = "read"
    /\ UNCHANGED <<env, error, objVars, output_file, sink, flushed, last_chunk,
                   lock, checksum, input_size, chunk_queue, pool, taskq,
                   file_pos, chunk_num, workerVars, writerVars, history>>

\* self.write_thread.join() returns once the write thread has ended, and
\* process_compression_target returns.
WriteThreadStarted == wr_pc # "unstarted"
WriteThreadEnded == wr_pc = "done"

JoinWriter ==
    /\ main_pc = "joining"
    /\ WriteThreadEnded
    /\ main_pc' = "returned"
    /\ UNCHANGED <<env, error, objVars, output_file, sink, flushed, last_chunk,
                   lock, checksum, input_size, chunk_queue, pool, taskq,
                   readerVars, workerVars, writerVars, history>>

\* ------------------------------------------------------------- read thread
\* One pass of _read_file's loop: read a chunk; an empty chunk leaves the
\* loop for the lock, any other is counted, numbered and applied to the pool.
\* apply_async raises once the pool has been terminated.
ReaderRead ==
    /\ r_pc = "read"
    /\ LET chunk == FileRead(env.input, file_pos, blocksize) IN
       IF chunk = <<>>
       THEN /\ r_pc' = "lock"
            /\ UNCHANGED <<file_pos, chunk_num, input_size, taskq>>
       ELSE /\ file_pos' = file_pos + BLen(chunk)
            /\ input_size' = input_size + BLen(chunk)
            /\ chunk_num' = chunk_num + 1
            /\ IF pool = "running"
               THEN taskq' = Append(taskq, <<chunk_num + 1, chunk>>) /\ r_pc' = r_pc
               ELSE taskq' = taskq /\ r_pc' = "failed"
    /\ UNCHANGED <<env, main_pc, error, objVars, output_file, sink, flushed,
                   last_chunk, lock, checksum, chunk_queue, pool, workerVars,
                   writerVars, history>>

\* with self._last_chunk_lock:
ReaderLock ==
    /\ r_pc = "lock"
    /\ lock = Unlocked
    /\ lock' = <<"reader", 0>>
    /\ r_pc' = "locked"
    /\ UNCHANGED <<env, main_pc, error, objVars, output_file, sink, flushed,
                   last_chunk, checksum, input_size, chunk_queue, pool, taskq,
                   file_pos, chunk_num, workerVars, writerVars, history>>

\* self._last_chunk = chunk_num, the lock's release, and the thread's end.
ReaderPublish ==
    /\ r_pc = "locked"
    /\ last_chunk' = chunk_num
    /\ lock' = Unlocked
    /\ r_pc' = "done"
    /\ UNCHANGED <<env, main_pc, error, objVars, output_file, sink, flushed,
                   checksum, input_size, chunk_queue, pool, taskq,
                   file_pos, chunk_num, workerVars, writerVars, history>>

\* ---------------------------------------------------------- worker threads
\* A thread of the pool takes the oldest pending task.
WorkerTake(w) ==
    /\ w <= workers
    /\ pool = "running"
    /\ w_pc[w] = "idle"
    /\ taskq # <<>>
    /\ w_task' = [w_task EXCEPT ![w] = Head(taskq)]
    /\ taskq' = Tail(taskq)
    /\ w_pc' = [w_pc EXCEPT ![w] = "lock"]
    /\ UNCHANGED <<env, main_pc, error, objVars, output_file, sink, flushed,
                   last_chunk, lock, checksum, input_size, chunk_queue, pool,
                   readerVars, w_last, writerVars, history>>

\* _process_chunk: with self._last_chunk_lock:
WorkerLock(w) ==
    /\ w_pc[w] = "lock"
    /\ lock = Unlocked
    /\ lock' = <<"worker", w>>
    /\ w_pc' = [w_pc EXCEPT ![w] = "locked"]
    /\ UNCHANGED <<env, main_pc, error, objVars, output_file, sink, flushed,
                   last_chunk, checksum, input_size, chunk_queue, pool, taskq,
                   readerVars, w_task, w_last, writerVars, history>>

\* last_chunk = chunk_num == self._last_chunk, and the lock's release.
WorkerReadLast(w) ==
    /\ w_pc[w] = "locked"
    /\ w_last' = [w_last EXCEPT ![w] = (w_task[w][1] = last_chunk)]
    /\ lock' = Unlocked
    /\ w_pc' = [w_pc EXCEPT ![w] = "compress"]
    /\ UNCHANGED <<env, main_pc, error, objVars, output_file, sink, flushed,
                   last_chunk, checksum, input_size, chunk_queue, pool, taskq,
                   readerVars, w_task, writerVars, history>>

\* The rest of _process_chunk: compress the chunk and put it on the queue.
\* A level zlib refuses raises in the pool's thread: the task ends there, its
\* exception kept in a result object nothing reads.
WorkerCompress(w) ==
    /\ w_pc[w] = "compress"
    /\ IF LevelAccepted(compression_level)
       THEN /\ chunk_queue' = chunk_queue \cup
                 {<<w_task[w][1], w_task[w][2],
                    _compress_chunk(w_task[w][2], w_last[w], compression_level)>>}
            /\ flushlog' = flushlog \cup {<<w_task[w][1], FlushOf(w_last[w])>>}
            /\ task_errors' = task_errors
       ELSE /\ task_errors' = task_errors \cup {w_task[w][1]}
            /\ UNCHANGED <<chunk_queue, flushlog>>
    /\ w_pc' = [w_pc EXCEPT ![w] = "idle"]
    /\ w_task' = [w_task EXCEPT ![w] = NoTask]
    /\ w_last' = [w_last EXCEPT ![w] = FALSE]
    /\ UNCHANGED <<env, main_pc, error, objVars, output_file, sink, flushed,
                   last_chunk, lock, checksum, input_size, pool, taskq,
                   readerVars, writerVars, wrote>>

\* ------------------------------------------------------------ write thread
\* PriorityQueue.get(): the smallest entry, and tuples compare by their
\* first differing component: chunk_num first.
QueueMax(q) == CHOOSE e \in q : \A f \in q : e[1] >= f[1]
QueueMin(q) == CHOOSE e \in q : \A f \in q : e[1] <= f[1]

\* if not self.chunk_queue.empty() fails: time.sleep(0.5)
WriterFindsEmpty ==
    /\ wr_pc = "loop"
    /\ chunk_queue = {}
    /\ wr_pc' = "sleep"
    /\ UNCHANGED <<env, main_pc, error, objVars, output_file, sink, flushed,
                   last_chunk, lock, checksum, input_size, chunk_queue, pool,
                   taskq, readerVars, workerVars, next_chunk_num, wr_item,
                   history>>

\* The sleep ends and the loop starts over.
WriterWakes ==
    /\ wr_pc = "sleep"
    /\ wr_pc' = "loop"
    /\ UNCHANGED <<env, main_pc, error, objVars, output_file, sink, flushed,
                   last_chunk, lock, checksum, input_size, chunk_queue, pool,
                   taskq, readerVars, workerVars, next_chunk_num, wr_item,
                   history>>

\* chunk_num, chunk, compressed_chunk = self.chunk_queue.get()
WriterGet ==
    /\ wr_pc = "loop"
    /\ chunk_queue # {}
    /\ wr_item' = QueueMin(chunk_queue)
    /\ chunk_queue' = chunk_queue \ {QueueMin(chunk_queue)}
    /\ wr_pc' = "got"
    /\ UNCHANGED <<env, main_pc, error, objVars, output_file, sink, flushed,
                   last_chunk, lock, checksum, input_size, pool, taskq,
                   readerVars, workerVars, next_chunk_num, history>>

\* chunk_num != next_chunk_num, negated
IsNextChunkLax(num) == num >= next_chunk_num
IsNextChunkAny(num) == TRUE
IsNextChunk(num) == num = next_chunk_num

\* chunk_num != next_chunk_num: put the entry back and sleep.
WriterPutsBack ==
    /\ wr_pc = "got"
    /\ ~IsNextChunk(wr_item[1])
    /\ chunk_queue' = chunk_queue \cup {wr_item}
    /\ wr_item' = NoItem
    /\ wr_pc' = "sleep"
    /\ UNCHANGED <<env, main_pc, error, objVars, output_file, sink, flushed,
                   last_chunk, lock, checksum, input_size, pool, taskq,
                   readerVars, workerVars, next_chunk_num, history>>

\* calculate_chunk_check
calculate_chunk_check_fresh(chunk) == crc32(chunk, 0)
calculate_chunk_check(chunk) == crc32(chunk, checksum)

\* chunk_num == next_chunk_num: the running checksum, then the write of the
\* compressed chunk.
WriterWrites ==
    /\ wr_pc = "got"
    /\ IsNextChunk(wr_item[1])
    /\ checksum' = calculate_chunk_check(wr_item[2])
    /\ sink' = Append(sink, wr_item[3])
    /\ wrote' = Append(wrote, wr_item[1])
    /\ wr_pc' = "written"
    /\ UNCHANGED <<env, main_pc, error, objVars, output_file, flushed,
                   last_chunk, lock, input_size, chunk_queue, pool, taskq,
                   readerVars, workerVars, next_chunk_num, wr_item, flushlog,
                   task_errors>>

\* if chunk_num == self._last_chunk: break; else next_chunk_num += 1.
\* _last_chunk is read without the lock.
IsLastChunkLax(num) == num >= last_chunk
IsLastChunkAlways(num) == TRUE
IsLastChunk(num) == num = last_chunk

WriterChecksLast ==
    /\ wr_pc = "written"
    /\ IF IsLastChunk(wr_item[1])
       THEN wr_pc' = "trailer" /\ next_chunk_num' = next_chunk_num
       ELSE wr_pc' = "loop" /\ next_chunk_num' = next_chunk_num + 1
    /\ wr_item' = NoItem
    /\ UNCHANGED <<env, main_pc, error, objVars, output_file, sink, flushed,
                   last_chunk, lock, checksum, input_size, chunk_queue, pool,
                   taskq, readerVars, workerVars, history>>

\* write_file_trailer: CRC32, then ISIZE.
TrailerWrites ==
    << Written(to_bytes(checksum, 4, env.byteorder)),
       Written(to_bytes(Mask32(input_size), 4, env.byteorder)) >>

\* clean_up: self.write_file_trailer()
write_file_trailer ==
    /\ wr_pc = "trailer"
    /\ sink' = sink \o TrailerWrites
    /\ wr_pc' = "flush"
    /\ UNCHANGED <<env, main_pc, error, objVars, output_file, flushed,
                   last_chunk, lock, checksum, input_size, chunk_queue, pool,
                   taskq, readerVars, workerVars, next_chunk_num, wr_item,
                   history>>

\* clean_up: self.output_file.flush()
FlushOutput ==
    /\ wr_pc = "flush"
    /\ flushed' = TRUE
    /\ wr_pc' = "close"
    /\ UNCHANGED <<env, main_pc, error, objVars, output_file, sink,
                   last_chunk, lock, checksum, input_size, chunk_queue, pool,
                   taskq, readerVars, workerVars, next_chunk_num, wr_item,
                   history>>

\* clean_up: self.output_file.close()
CloseOutput ==
    /\ wr_pc = "close"
    /\ output_file' = "closed"
    /\ wr_pc' = "terminate"
    /\ UNCHANGED <<env, main_pc, error, objVars, sink, flushed,
                   last_chunk, lock, checksum, input_size, chunk_queue, pool,
                   taskq, readerVars, workerVars, next_chunk_num, wr_item,
                   history>>

\* close_workers: self.pool.terminate() drops the tasks no thread has taken
\* and lets no thread take another.
TerminatePool ==
    /\ wr_pc = "terminate"
    /\ pool' = "terminated"
    /\ taskq' = <<>>
    /\ wr_pc' = "pool_join"
    /\ UNCHANGED <<env, main_pc, error, objVars, output_file, sink, flushed,
                   last_chunk, lock, checksum, input_size, chunk_queue,
                   readerVars, workerVars, next_chunk_num, wr_item, history>>

\* close_workers: self.pool.join() returns once the pool's threads have
\* ended, each after the task it was running; the write thread ends.
JoinPool ==
    /\ wr_pc = "pool_join"
    /\ \A w \in Workers : w_pc[w] = "idle"
    /\ pool' = "joined"
    /\ wr_pc' = "done"
    /\ UNCHANGED <<env, main_pc, error, objVars, output_file, sink, flushed,
                   last_chunk, lock, checksum, input_size, chunk_queue, taskq,
                   readerVars, workerVars, next_chunk_num, wr_item, history>>

\* ------------------------------------------------------------------ faults
\* open() or input_file.read() raises: the read thread ends with the
\* exception, which nothing catches or records.
ReaderFails ==
    /\ r_pc = "read"
    /\ r_pc' = "failed"
    /\ UNCHANGED <<env, main_pc, error, objVars, output_file, sink, flushed,
                   last_chunk, lock, checksum, input_size, chunk_queue, pool,
                   taskq, file_pos, chunk_num, workerVars, writerVars, history>>

\* The compressor raises: the task ends with the exception, kept in a
\* result object nothing reads, and the thread is free for the next task.
WorkerFails(w) ==
    /\ w_pc[w] = "compress"
    /\ w_pc' = [w_pc EXCEPT ![w] = "idle"]
    /\ w_task' = [w_task EXCEPT ![w] = NoTask]
    /\ w_last' = [w_last EXCEPT ![w] = FALSE]
    /\ task_errors' = task_errors \cup {w_task[w][1]}
    /\ UNCHANGED <<env, main_pc, error, objVars, output_file, sink, flushed,
                   last_chunk, lock, checksum, input_size, chunk_queue, pool,
                   taskq, readerVars, writerVars, flushlog, wrote>>

\* --------------------------------------------------------- specifications
MainStep == Construct \/ SetupOutput \/ StartWriter \/ StartReader \/ JoinWriter
ReaderStep == ReaderRead \/ ReaderLock \/ ReaderPublish
WorkerStep(w) == WorkerTake(w) \/ WorkerLock(w) \/ WorkerReadLast(w) \/ WorkerCompress(w)
WriterStep ==
    \/ WriterFindsEmpty \/ WriterWakes \/ WriterGet \/ WriterPutsBack
    \/ WriterWrites \/ WriterChecksLast \/ write_file_trailer
    \/ FlushOutput \/ CloseOutput \/ TerminatePool \/ JoinPool

Next ==
    \/ MainStep
    \/ ReaderStep
    \/ \E w \in Workers : WorkerStep(w)
    \/ WriterStep

\* A valid configuration on either byte order, every input.
Init ==
    InitWith({"file"}, {PlainName}, Inputs, {9}, {1}, 1..MaxWorkers,
             {"little", "big"}, {258})

Spec == Init /\ [][Next]_vars

\* Every thread that can take a step eventually takes one: the threads are
\* operating-system threads, none of which the scheduler starves.
Fairness ==
    /\ WF_vars(MainStep)
    /\ WF_vars(ReaderStep)
    /\ \A w \in Workers : WF_vars(WorkerStep(w))
    /\ WF_vars(WriterStep)

FairSpec == Spec /\ Fairness

\* The same program when a read of the input or a compression can fail.
NextFault ==
    \/ Next
    \/ ReaderFails
    \/ \E w \in Workers : WorkerFails(w)

FaultInputs == {s \in Inputs : Len(s) <= 2}

InitFault ==
    InitWith({"file"}, {PlainName}, FaultInputs, {9}, {1}, 1..MaxWorkers,
             {"little"}, {258})

FairSpecFault == InitFault /\ [][NextFault]_vars /\ Fairness

\* The same program under every kind of configuration: a target that is a
\* file, a directory or missing; levels, block sizes and worker counts
\* inside and outside the documented ranges.
InitConfig ==
    InitWith({"file", "dir", "missing"}, {PlainName}, FaultInputs,
             {0, 9, 10}, {-1, 0, 1}, 0..MaxWorkers, {"little"}, {258})

SpecConfig == InitConfig /\ [][Next]_vars

\* The same program for every kind of file name, the levels 1, 5 and 9, either
\* byte order, and a modification time after and before the epoch.
InitHeader ==
    InitWith({"file"}, {PlainName, GzName, EuroName}, FaultInputs,
             {1, 5, 9}, {1}, {MaxWorkers}, {"little", "big"}, {258, -1})

SpecHeader == InitHeader /\ [][Next]_vars

\* ------------------------------------------------------------------ claims
\* What the input file is, block by block, for the block size of the call:
\* block i is the i-th stretch of env.blocksize * KB bytes of the input.
BlockBytes == env.blocksize * KB
NumBlocks == (BLen(env.input) + BlockBytes - 1) \div BlockBytes
Block(i) == BTake(BDrop(env.input, (i - 1) * BlockBytes), BlockBytes)

IsPrefix(s, t) == Len(s) <= Len(t) /\ s = SubSeq(t, 1, Len(s))
HeaderLen == Len(HeaderWrites)
LittleEndian4(n) == Written(BytesOf(LittleBytes(n, 4)))
Completed == main_pc = "returned"
TrailerWritten ==
    /\ Len(sink) = HeaderLen + Len(wrote) + 2
    /\ SubSeq(sink, Len(sink) - 1, Len(sink)) = TrailerWrites

\* C1: for every non-empty input and valid configuration, under fair
\* scheduling of the threads, process_compression_target eventually returns.
C1_EventuallyReturns ==
    (ValidConfig /\ env.input # <<>>) => <>(main_pc = "returned")

\* C2: for a zero-length input the write thread ends after the header, the
\* trailer is written with CRC 0 and ISIZE 0, and
\* process_compression_target returns.
C2_EmptyInputTerminates ==
    (ValidConfig /\ env.input = <<>>) =>
        <>(/\ main_pc = "returned"
           /\ wrote = <<>>
           /\ last_chunk = 0
           /\ TrailerWritten
           /\ checksum = 0 /\ input_size = 0)

\* C3: the sequence numbers of the compressed blocks written to the output
\* file are 1, 2, ..., k in that order, in every reachable state.
C3_WrittenInOrder == \A i \in 1..Len(wrote) : wrote[i] = i

\* Block 1 is written and block 3 was compressed before block 2: the write
\* thread took block 3 off the queue, put it back, and is waiting for
\* block 2.
C3_Witness ==
    /\ wrote = <<1>>
    /\ next_chunk_num = 2
    /\ wr_pc = "sleep"
    /\ \E e \in chunk_queue : e[1] = 3
    /\ ~(\E e \in chunk_queue : e[1] = 2)

\* C4: in every completed run exactly one block has been compressed with
\* FINISH flush, the block numbered last_chunk.
C4_ExactlyOneFinish ==
    Completed =>
        /\ Cardinality({e \in flushlog : e[2] = "FINISH"}) = 1
        /\ <<last_chunk, "FINISH">> \in flushlog

\* C5: the output file's content is always a prefix of header, compressed
\* block 1, ..., compressed block N, trailer; the trailer is written once,
\* after all N = last_chunk blocks, and nothing after it.
C5_SinkIsStreamPrefix ==
    LET k == Len(wrote) IN
    \/ IsPrefix(sink, HeaderWrites)
    \/ /\ Len(sink) > HeaderLen
       /\ SubSeq(sink, 1, HeaderLen) = HeaderWrites
       /\ k <= NumBlocks
       /\ Len(sink) \in {HeaderLen + k, HeaderLen + k + 2}
       /\ \A i \in 1..k :
             /\ sink[HeaderLen + i].kind = "deflate"
             /\ sink[HeaderLen + i].data = Block(i)
       /\ Len(sink) = HeaderLen + k + 2 =>
             /\ k = NumBlocks
             /\ k = last_chunk
             /\ TrailerWritten
             /\ wr_pc \in {"flush", "close", "terminate", "pool_join", "done"}

\* The trailer is in the file after three blocks.
C5_Witness == Len(wrote) = 3 /\ TrailerWritten /\ Len(sink) = HeaderLen + 5

\* C6: in every completed run the last two writes are CRC-32 of the input
\* and its length mod 2^32, each as four little-endian bytes; checksum
\* covers every block and input_size is the input's length.
C6_TrailerLittleEndian ==
    Completed =>
        /\ checksum = crc32(env.input, 0)
        /\ input_size = BLen(env.input)
        /\ Len(sink) >= 2
        /\ SubSeq(sink, Len(sink) - 1, Len(sink))
             = << LittleEndian4(crc32(env.input, 0)),
                  LittleEndian4(Mask32(BLen(env.input))) >>

\* C7: in every reachable state checksum is the CRC-32, started at 0, of
\* the raw bytes of blocks 1..k in order, k the number of blocks written.
C7_RunningChecksum ==
    checksum = crc32(BTake(env.input, Len(wrote) * BlockBytes), 0)

\* Two blocks have been written, and the checksum of the two is not that
\* of either one.
C7_Witness ==
    /\ Len(wrote) = 2
    /\ checksum # crc32(Block(1), 0)
    /\ checksum # crc32(Block(2), 0)

C9_FailureSurfaces ==
    []((r_pc = "failed" \/ task_errors # {}) => <>(main_pc = "raised"))

\* C10: with a level outside 1..9, a block size <= 0 or a worker count <= 0
\* no work begins: the output file is not opened, nothing is written, and no
\* thread or task starts.
C10_InvalidConfigNoWork ==
    ~ValidConfig =>
        /\ output_file = "none"
        /\ sink = <<>>
        /\ r_pc = "unstarted"
        /\ wr_pc = "unstarted"
        /\ taskq = <<>>
        /\ \A w \in Workers : w_pc[w] = "idle"

\* The blocks the read thread has applied to the pool and whose _process_chunk
\* has not ended: the tasks still pending and the tasks a thread is running.
InFlight == Len(taskq) + Cardinality({w \in Workers : w_pc[w] # "idle"})

\* C11: in every reachable state at most 2 x workers blocks have been
\* dispatched by the read thread and not yet compressed.
C11_BoundedInFlight == InFlight <= 2 * env.workers

\* The raw bytes of the compressed blocks in the output file, in the order
\* written.
BodyData == [i \in 1..Len(wrote) |-> sink[HeaderLen + i].data]

\* C12: what a completed run has written is decided by the input and the
\* block size alone, whatever the worker count and the interleaving: the
\* blocks' contents are blocks 1..N of the input in that order, and the
\* trailer holds the CRC-32 of the input and its length.
C12_OutputDeterminedByInput ==
    Completed =>
        /\ Len(wrote) = NumBlocks
        /\ BodyData = [i \in 1..NumBlocks |-> Block(i)]
        /\ SubSeq(sink, Len(sink) - 1, Len(sink))
             = << Written(to_bytes(crc32(env.input, 0), 4, env.byteorder)),
                  Written(to_bytes(Mask32(BLen(env.input)), 4, env.byteorder)) >>

\* A run of two workers has completed with three blocks, the last of them
\* compressed with SYNC flush because _last_chunk was still unknown.
C12_Witness ==
    /\ Completed
    /\ env.workers = 2
    /\ Len(wrote) = 3
    /\ <<3, "SYNC">> \in flushlog

\* The bytes of a sequence of writes, put together.
RECURSIVE SinkData(_)
SinkData(writes) ==
    IF writes = <<>> THEN <<>>
    ELSE BCat(writes[1].data, SinkData(Tail(writes)))

FirstTenBytes ==
    BTake(SinkData(SubSeq(sink, 1, IF Len(sink) < 7 THEN Len(sink) ELSE 7)), 10)

\* C13: once _setup_output_file has run, the first ten bytes of the output
\* file are 1F 8B 08, FLG (8 exactly when a non-empty FNAME follows), MTIME
\* as four little-endian bytes, XFL (2 for level 9, 4 for level 1, else 0)
\* and OS (3 on Linux).
C13_HeaderTenBytes ==
    main_pc \notin {"call", "constructed"} =>
        LET flg == IF Len(sink) >= 8 /\ sink[8].data # <<>> THEN 8 ELSE 0
            xfl == IF env.compresslevel = 9 THEN 2
                   ELSE IF env.compresslevel = 1 THEN 4 ELSE 0
        IN  FirstTenBytes
              = BytesOf(<<31, 139, 8, flg>> \o LittleBytes(env.st_mtime, 4)
                          \o <<xfl, 3>>)

\* C14: only the final block is ever compressed with FINISH flush: every
\* FINISH in the history is for block N = _last_chunk, and a worker that
\* has found its block to be the last holds block N.
C14_FinishOnlyForLast ==
    /\ \A e \in flushlog :
          e[2] = "FINISH" => (e[1] = NumBlocks /\ e[1] = last_chunk)
    /\ \A w \in Workers :
          w_last[w] => (w_task[w][1] = NumBlocks /\ w_task[w][1] = last_chunk)

\* Three blocks compressed, the first two with SYNC and the third with
\* FINISH.
C14_Witness == flushlog = {<<1, "SYNC">>, <<2, "SYNC">>, <<3, "FINISH">>}

\* The compressed blocks in the output file.
DeflateBody == SelectSeq(sink, LAMBDA x : x.kind = "deflate")

\* C15: in every completed run of a non-empty input the DEFLATE body in the
\* output file ends with a block carrying the final marker, whether the
\* worker flushed it with FINISH or the write thread repaired it.
C15_BodyEndsWithFinal ==
    (Completed /\ env.input # <<>>) =>
        /\ DeflateBody # <<>>
        /\ DeflateBody[Len(DeflateBody)].flush = "FINISH"

\* C16: the read thread applies blocks 1, 2, ..., N to the pool in read
\* order, each one step after the one before, and _last_chunk changes at
\* most once: from -1 to N, in a step of the read thread that holds the lock
\* after all N blocks were dispatched; once the read thread has ended it has
\* changed.
C16_ReaderNumbersAndPublishes ==
    /\ [](/\ chunk_num <= NumBlocks
          /\ last_chunk \in {LastChunkUnknown, NumBlocks}
          /\ last_chunk # LastChunkUnknown => chunk_num = NumBlocks
          /\ r_pc = "done" <=> last_chunk # LastChunkUnknown)
    /\ [][/\ Len(taskq') > Len(taskq) =>
               /\ r_pc = "read"
               /\ chunk_num' = chunk_num + 1
               /\ taskq' = Append(taskq, <<chunk_num + 1, Block(chunk_num + 1)>>)
          /\ chunk_num' # chunk_num =>
               /\ chunk_num' = chunk_num + 1
               /\ Len(taskq') = Len(taskq) + 1
          /\ last_chunk' # last_chunk =>
               /\ last_chunk = LastChunkUnknown
               /\ last_chunk' = NumBlocks
               /\ chunk_num = NumBlocks
               /\ r_pc = "locked" /\ lock = <<"reader", 0>>
               /\ r_pc' = "done"]_vars

\* _last_chunk has been set to 3 while a block is still waiting for a
\* thread of the pool.
C16_Witness ==
    /\ last_chunk = 3 /\ chunk_num = 3 /\ r_pc = "done"
    /\ taskq # <<>>

QueuedNums == {e[1] : e \in chunk_queue}

\* C18: every entry of the priority queue has a chunk number that is at
\* least next_chunk_num, and no chunk number is queued twice (a worker never
\* queues a number that is queued, held by the write thread or written).
\* When the write thread takes the smallest entry and it is not the one it
\* waits for, that one is not on the queue it takes from; putting the entry
\* back adds just the entry taken, so the get and the put-back together
\* leave the queue's contents as they were, and the put-back leaves
\* checksum, the output file and next_chunk_num alone.
C18_QueueAheadOfWriter ==
    /\ [](/\ \A e \in chunk_queue : e[1] >= next_chunk_num
          /\ \A e, f \in chunk_queue : e[1] = f[1] => e = f
          /\ (wr_pc = "got" /\ wr_item[1] # next_chunk_num) =>
                /\ wr_item[1] > next_chunk_num
                /\ wr_item[1] \notin QueuedNums)
    /\ [][/\ (\E w \in Workers : WorkerCompress(w)) =>
               \A n \in QueuedNums' \ QueuedNums :
                   /\ n # wr_item[1]
                   /\ \A i \in 1..Len(wrote) : wrote[i] # n
          /\ WriterGet =>
               /\ wr_item' \notin chunk_queue'
               /\ chunk_queue = chunk_queue' \cup {wr_item'}
               /\ wr_item'[1] # next_chunk_num =>
                     next_chunk_num \notin QueuedNums
          /\ WriterPutsBack =>
               /\ chunk_queue' = chunk_queue \cup {wr_item}
               /\ Cardinality(chunk_queue') = Cardinality(chunk_queue) + 1
               /\ UNCHANGED <<checksum, sink, next_chunk_num>>]_vars

\* The write thread waits for block 1 and has taken block 2 off the queue,
\* where block 3 remains.
C18_Witness ==
    /\ wr_pc = "got"
    /\ next_chunk_num = 1
    /\ wr_item[1] = 2
    /\ QueuedNums = {3}

\* C19: for a non-empty input, next_chunk_num never exceeds the number N of
\* blocks the read thread dispatches: the write thread never waits for a
\* block N + 1.
C19_NextWithinBlocks == env.input # <<>> => next_chunk_num <= NumBlocks

\* The states from pool.terminate() on: the write thread is about to call
\* it, or has called it.
PoolShutDown ==
    wr_pc = "terminate" \/ pool \in {"terminated", "joined"}

\* C20: when the pool is terminated the read thread has published
\* _last_chunk = N and ended, every block 1..N has been compressed, taken
\* off the queue, checksummed and written, no task is pending or running
\* and the priority queue is empty.
C20_TerminateDiscardsNothing ==
    PoolShutDown =>
        /\ r_pc = "done"
        /\ last_chunk = NumBlocks
        /\ chunk_num = NumBlocks
        /\ {e[1] : e \in flushlog} = 1..NumBlocks
        /\ wrote = [i \in 1..NumBlocks |-> i]
        /\ checksum = crc32(env.input, 0)
        /\ taskq = <<>>
        /\ \A w \in Workers : w_pc[w] = "idle"
        /\ chunk_queue = {}
        /\ wr_item = NoItem

\* The write thread is about to terminate the pool after a run of two
\* blocks on two workers.
C20_Witness ==
    /\ wr_pc = "terminate"
    /\ pool = "running"
    /\ env.workers = 2
    /\ Len(wrote) = 2

====
